---- MODULE Spec2Model ----
(***************************************************************************)
(* A model of the UTAP type checker (src/src/typechecker.cc).              *)
(*                                                                         *)
(* Expressions are trees  [kind, args, type, sym, value, sync]; the type   *)
(* slot of a node is what annotate() writes.  Types are records            *)
(* [base, prefix, range, size, sub, frame].  The error sink is the         *)
(* sequence of diagnostics appended by handleError / handleWarning.        *)
(* A failing assert() aborts the run unless the build defines NDEBUG.      *)
(***************************************************************************)
EXTENDS Integers, Sequences, FiniteSets, TLC

VARIABLES
    pc,       \* position of the run: "start", "checking", "returned", "aborted",
              \* and "input" / "done" for the runs of a single function
    node,     \* the node (or function input) handled by the last step
    mark,     \* length of the sink before the last step
    sink,     \* the error sink: sequence of [sev, msg]
    visits,   \* number of nodes visited so far
    ndebug,   \* TRUE iff the build compiles assert() out
    result    \* value returned by the entry point (meaningful when pc = "returned")

vars == <<pc, node, mark, sink, visits, ndebug, result>>

\* Number of nodes one run of the checker visits at most.
MaxVisits == 2

----------------------------------------------------------------------------
(* Types *)

NullFrame == [id |-> "null", fields |-> <<>>]

Type(base) ==
    [base |-> base, prefix |-> {}, range |-> <<>>, size |-> <<>>,
     sub |-> <<>>, frame |-> NullFrame]

VoidType == Type("VOID")
IntType == Type("INT")
BoolType == Type("BOOL")
ClockType == Type("CLOCK")

hasPrefix(type, p) == p \in type.prefix
withPrefix(type, ps) == [type EXCEPT !.prefix = @ \cup ps]

(* Expressions *)

mkExpr(kind, args, type) ==
    [kind |-> kind, args |-> args, type |-> type, sym |-> "", value |-> 0,
     sync |-> ""]

Empty == mkExpr("EMPTY", <<>>, VoidType)
empty(expr) == expr.kind = "EMPTY"

\* expression_t::createConstant: an integer literal, typed INT.
Const(n) == [mkExpr("CONSTANT", <<>>, IntType) EXCEPT !.value = n]

IntRange(lo, hi) == [IntType EXCEPT !.range = <<lo, hi>>]
ArrayOf(sizeExpr, sub) ==
    [Type("ARRAY") EXCEPT !.size = <<sizeExpr>>, !.sub = <<sub>>]
Channel(ps) == withPrefix(Type("CHANNEL"), ps)
RecordOf(frame) == [Type("RECORD") EXCEPT !.frame = frame]
FunctionOf(params) ==
    [Type("FUNCTION") EXCEPT !.frame = [id |-> "params", fields |-> params]]

getSub(type) == IF type.sub = <<>> THEN VoidType ELSE type.sub[1]
getArraySize(type) == IF type.size = <<>> THEN Empty ELSE type.size[1]
getRangeFirst(type) == IF type.range = <<>> THEN Empty ELSE type.range[1]
getRangeSecond(type) == IF type.range = <<>> THEN Empty ELSE type.range[2]
getRecordFields(type) == type.frame

\* Frames are nominal: equal iff they are the same frame.
sameFrame(f, g) == f.id = g.id

\* expression_t::equal: structural equality of two expressions.
equal(e1, e2) == e1 = e2

----------------------------------------------------------------------------
(* The symbols of the system under check.  N is a declared constant (with  *)
(* a value in the constant valuation), P a constant value parameter of a   *)
(* template (no value outside an instantiation), t a local of a function.  *)

\* An identifier of a constant integer symbol, as it occurs in a bound.
Ident0(s) ==
    [mkExpr("IDENTIFIER", <<>>, withPrefix(IntType, {"CONSTANT"}))
       EXCEPT !.sym = s]

FrameF == [id |-> "F", fields |-> <<[name |-> "m", type |-> IntType]>>]
FrameG == [id |-> "G", fields |-> <<[name |-> "m", type |-> IntType]>>]
\* struct { int[0,10] m; bool n; }
FrameH ==
    [id |-> "H",
     fields |-> <<[name |-> "m", type |-> IntRange(Const(0), Const(10))],
                  [name |-> "n", type |-> BoolType]>>]

SymbolType(s) ==
    CASE s = "i"  -> IntRange(Const(0), Const(10))
      [] s = "j"  -> IntRange(Const(0), Const(5))
      [] s = "k"  -> IntRange(Const(20), Const(30))
      [] s = "b"  -> BoolType
      [] s = "x"  -> ClockType
      [] s = "y"  -> ClockType
      [] s = "N"  -> withPrefix(IntType, {"CONSTANT"})
      [] s = "P"  -> withPrefix(IntType, {"CONSTANT"})
      [] s = "t"  -> IntType
      [] s = "z"  -> IntRange(Const(5), Const(0))
      [] s = "a"  -> ArrayOf(Const(2), IntRange(Const(0), Const(10)))
      [] s = "c"  -> Channel({})
      [] s = "u"  -> Channel({"URGENT"})
      [] s = "bc" -> Channel({"BROADCAST"})
      [] s = "ub" -> Channel({"URGENT", "BROADCAST"})
      [] s = "ca" -> ArrayOf(Const(2), Channel({}))
      [] s = "ap" -> ArrayOf(Ident0("P"), IntRange(Const(0), Const(10)))
      [] s = "ip" -> IntRange(Const(0), Ident0("P"))
      [] s = "r"  -> RecordOf(FrameF)
      [] s = "q"  -> RecordOf(FrameG)
      [] s = "f"  -> FunctionOf(<<>>)
      [] s = "g"  -> FunctionOf(<<>>)
      [] OTHER    -> VoidType

\* The declared variables and the template parameters of the system.
DeclaredVariables ==
    {"i", "j", "k", "b", "x", "y", "N", "a", "c", "u", "bc", "ub", "ca", "ap",
     "ip", "r", "q", "z"}
TemplateParameters == {"P"}

\* PersistentVariables::visitVariable / visitTemplateAfter
persistentVariables ==
    {s \in DeclaredVariables : ~hasPrefix(SymbolType(s), "CONSTANT")}
    \cup {s \in TemplateParameters :
            hasPrefix(SymbolType(s), "REFERENCE")
            \/ ~hasPrefix(SymbolType(s), "CONSTANT")}

\* TimedAutomataSystem::getConstantValuation
ConstantValuation == [s \in {"N"} |-> 3]

Ident(s) == [mkExpr("IDENTIFIER", <<>>, SymbolType(s)) EXCEPT !.sym = s]
Binary(kind, l, r) == mkExpr(kind, <<l, r>>, VoidType)
Unary(kind, e) == mkExpr(kind, <<e>>, VoidType)
InlineIf(c, l, r) == mkExpr("INLINEIF", <<c, l, r>>, VoidType)
\* a[e]: the builder types an index expression with the element type.
Index(arr, e) == mkExpr("ARRAY", <<arr, e>>, getSub(arr.type))
\* a call without arguments; the builder types it with the return type.
Call(fn, ret) == mkExpr("FUNCALL", <<Ident(fn)>>, ret)
Sync(ch, s) == [mkExpr("SYNC", <<ch>>, VoidType) EXCEPT !.sync = s]
LeadsTo(l, r) == mkExpr("LEADSTO", <<l, r>>, VoidType)

----------------------------------------------------------------------------
(* Diagnostics *)

Err(m) == [sev |-> "error", msg |-> m]
Warn(m) == [sev |-> "warning", msg |-> m]

\* The outcome of a piece of checking: the diagnostics it emitted and
\* whether it ran into a failing assert() of a build without NDEBUG.
Ok == [d |-> <<>>, ab |-> FALSE]
handleError(m) == [d |-> <<Err(m)>>, ab |-> FALSE]
handleWarning(m) == [d |-> <<Warn(m)>>, ab |-> FALSE]
assertFails == [d |-> <<>>, ab |-> ~ndebug]
\* r1 followed by r2; r2 does not run when r1 aborted.
Then(r1, r2) ==
    IF r1.ab THEN r1 ELSE [d |-> r1.d \o r2.d, ab |-> r2.ab]
When(c, r) == IF c THEN r ELSE Ok

hasErrors(s) == \E n \in 1..Len(s) : s[n].sev = "error"
Count(s, m) == Cardinality({n \in 1..Len(s) : s[n].msg = m})
Has(s, m) == \E n \in 1..Len(s) : s[n].msg = m

----------------------------------------------------------------------------
(* Collaborators of the checker: expression_t queries, the constant        *)
(* evaluator (Interpreter) and range_t.                                    *)

RECURSIVE dependsOn(_, _)
\* expression_t::dependsOn: some symbol of S occurs in the expression.
dependsOn(expr, S) ==
    \/ expr.kind = "IDENTIFIER" /\ expr.sym \in S
    \/ \E n \in 1..Len(expr.args) : dependsOn(expr.args[n], S)

AssignKinds ==
    {"ASSIGN", "ASSPLUS", "ASSMINUS", "ASSDIV", "ASSMOD", "ASSMULT", "ASSAND",
     "ASSOR", "ASSXOR", "ASSLSHIFT", "ASSRSHIFT"}
IncDecKinds ==
    {"POSTINCREMENT", "PREINCREMENT", "POSTDECREMENT", "PREDECREMENT"}

RECURSIVE targets(_)
\* The symbols an expression used as the target of an update resolves to.
targets(expr) ==
    CASE expr.kind = "IDENTIFIER" -> {expr.sym}
      [] expr.kind \in {"ARRAY", "DOT"} -> targets(expr.args[1])
      [] expr.kind \in AssignKinds \cup {"PREINCREMENT", "PREDECREMENT"} ->
            targets(expr.args[1])
      [] expr.kind = "INLINEIF" ->
            targets(expr.args[2]) \cup targets(expr.args[3])
      [] expr.kind = "COMMA" -> targets(expr.args[2])
      [] OTHER -> {}

RECURSIVE changesVariable(_, _)
\* expression_t::changesVariable: the expression contains an assignment,
\* increment or decrement whose target resolves to a symbol of S.
changesVariable(expr, S) ==
    \/ expr.kind \in AssignKinds \cup IncDecKinds
       /\ targets(expr.args[1]) \cap S # {}
    \/ \E n \in 1..Len(expr.args) : changesVariable(expr.args[n], S)

RECURSIVE getSymbol(_)
\* expression_t::getSymbol: the symbol an expression refers to ("" if none).
getSymbol(expr) ==
    CASE expr.kind = "IDENTIFIER" -> expr.sym
      [] expr.kind \in {"ARRAY", "DOT"} -> getSymbol(expr.args[1])
      [] expr.kind \in AssignKinds \cup {"PREINCREMENT", "PREDECREMENT"} ->
            getSymbol(expr.args[1])
      [] expr.kind = "INLINEIF" -> getSymbol(expr.args[2])
      [] expr.kind = "COMMA" -> getSymbol(expr.args[2])
      [] OTHER -> ""

Fail == [ok |-> FALSE, v |-> 0]
Value(n) == [ok |-> TRUE, v |-> n]

RECURSIVE evaluate(_, _)
\* Interpreter::evaluate(expression): the value of a constant expression
\* under a valuation; not ok stands for an InterpreterException.
evaluate(val, expr) ==
    CASE expr.kind = "CONSTANT" -> Value(expr.value)
      [] expr.kind = "IDENTIFIER" ->
            IF expr.sym \in DOMAIN val THEN Value(val[expr.sym]) ELSE Fail
      [] expr.kind = "UNARY_MINUS" ->
            LET e1 == evaluate(val, expr.args[1])
            IN  IF e1.ok THEN Value(-e1.v) ELSE Fail
      [] expr.kind \in {"PLUS", "MINUS", "MULT"} ->
            LET e1 == evaluate(val, expr.args[1])
                e2 == evaluate(val, expr.args[2])
            IN  IF ~(e1.ok /\ e2.ok) THEN Fail
                ELSE IF expr.kind = "PLUS" THEN Value(e1.v + e2.v)
                ELSE IF expr.kind = "MINUS" THEN Value(e1.v - e2.v)
                ELSE Value(e1.v * e2.v)
      [] OTHER -> Fail

RECURSIVE evaluateVector(_, _)
\* Interpreter::evaluate(expression, vector): the flattened values.
evaluateVector(val, expr) ==
    IF expr.kind = "LIST"
    THEN IF expr.args = <<>> THEN [ok |-> TRUE, vs |-> <<>>]
         ELSE LET h == evaluateVector(val, Head(expr.args))
                  t == evaluateVector(val, [expr EXCEPT !.args = Tail(@)])
              IN  [ok |-> h.ok /\ t.ok, vs |-> h.vs \o t.vs]
    ELSE LET e1 == evaluate(val, expr)
         IN  [ok |-> e1.ok, vs |-> IF e1.ok THEN <<e1.v>> ELSE <<>>]

\* range_t: an interval [lo, hi], empty iff lo > hi.
Range(lo, hi) == [lo |-> lo, hi |-> hi]
EmptyRange == Range(1, 0)
rangeIsEmpty(r) == r.lo > r.hi
rangeEqual(r1, r2) ==
    (rangeIsEmpty(r1) /\ rangeIsEmpty(r2)) \/ r1 = r2
rangeContains(r1, r2) ==
    rangeIsEmpty(r2) \/ (r1.lo <= r2.lo /\ r2.hi <= r1.hi)
rangeContainsValue(r, n) == r.lo <= n /\ n <= r.hi
Max2(m, n) == IF m >= n THEN m ELSE n
Min2(m, n) == IF m <= n THEN m ELSE n
rangeIntersect(r1, r2) == Range(Max2(r1.lo, r2.lo), Min2(r1.hi, r2.hi))
rangeJoin(r1, r2) ==
    IF rangeIsEmpty(r1) THEN r2
    ELSE IF rangeIsEmpty(r2) THEN r1
    ELSE Range(Min2(r1.lo, r2.lo), Max2(r1.hi, r2.hi))

\* Interpreter::evaluate(pair of bound expressions)
evaluateRange(val, type) ==
    LET lo == evaluate(val, getRangeFirst(type))
        hi == evaluate(val, getRangeSecond(type))
    IN  IF lo.ok /\ hi.ok THEN [ok |-> TRUE, r |-> Range(lo.v, hi.v)]
        ELSE [ok |-> FALSE, r |-> EmptyRange]

RECURSIVE joinValues(_)
joinValues(vs) ==
    IF vs = <<>> THEN EmptyRange
    ELSE rangeJoin(joinValues(SubSeq(vs, 1, Len(vs) - 1)),
                   Range(vs[Len(vs)], vs[Len(vs)]))

----------------------------------------------------------------------------
(* Classification predicates *)

isInteger(expr) == expr.type.base \in {"INT", "BOOL"}
isClock(expr) == expr.type.base = "CLOCK"
isRecord(expr) == expr.type.base = "RECORD"
isDiff(expr) == expr.type.base = "DIFF"
isInvariant(expr) ==
    empty(expr) \/ expr.type.base = "INVARIANT" \/ isInteger(expr)
isGuard(expr) == expr.type.base = "GUARD" \/ isInvariant(expr)
isConstraint(expr) == expr.type.base = "CONSTRAINT" \/ isGuard(expr)

isSideEffectFree(expr) == ~changesVariable(expr, persistentVariables)

RECURSIVE stripArray(_)
stripArray(type) ==
    IF type.base = "ARRAY" THEN stripArray(getSub(type)) ELSE type

\* A faulty range test of isLHSValue that accepts any two ranges.
anyRangeDeclaration(t, f) == TRUE

\* The last test of case INLINEIF of isLHSValue on the stripped types t
\* and f of the symbols of the branches.
sameRangeDeclaration(t, f) ==
    t.base # "INT"
    \/ (equal(getRangeFirst(t), getRangeFirst(f))
        /\ equal(getRangeSecond(t), getRangeSecond(f)))

RECURSIVE isLHSValue(_)
isLHSValue(expr) ==
    CASE expr.kind = "IDENTIFIER" ->
            ~hasPrefix(SymbolType(expr.sym), "CONSTANT")
      [] expr.kind \in {"DOT", "ARRAY"} -> isLHSValue(expr.args[1])
      [] expr.kind \in AssignKinds \cup {"PREINCREMENT", "PREDECREMENT"} ->
            isLHSValue(expr.args[1])
      [] expr.kind = "INLINEIF" ->
            IF ~isLHSValue(expr.args[2]) \/ ~isLHSValue(expr.args[3])
            THEN FALSE
            ELSE sameRangeDeclaration(
                   stripArray(SymbolType(getSymbol(expr.args[2]))),
                   stripArray(SymbolType(getSymbol(expr.args[3]))))
      [] expr.kind = "COMMA" -> isLHSValue(expr.args[2])
      [] OTHER -> FALSE

\* A faulty case IDENTIFIER of isUniqueReference that takes constants.
isAnyIdentifier(expr) == TRUE

\* case IDENTIFIER of isUniqueReference
isUniqueIdentifier(expr) ==
    ~hasPrefix(expr.type, "CONSTANT")

RECURSIVE isUniqueReference(_)
isUniqueReference(expr) ==
    CASE expr.kind = "IDENTIFIER" -> isUniqueIdentifier(expr)
      [] expr.kind = "DOT" -> isUniqueReference(expr.args[1])
      [] expr.kind = "ARRAY" ->
            isUniqueReference(expr.args[1])
            /\ ~dependsOn(expr.args[2], persistentVariables)
      [] expr.kind \in AssignKinds \cup {"PREINCREMENT", "PREDECREMENT"} ->
            isUniqueReference(expr.args[1])
      [] expr.kind = "INLINEIF" -> FALSE
      [] expr.kind = "COMMA" -> isUniqueReference(expr.args[2])
      [] OTHER -> FALSE

----------------------------------------------------------------------------
(* Parameter compatibility *)

\* A faulty channelCapability that ranks BROADCAST before URGENT.
channelCapabilityBroadcastFirst(type) ==
    IF hasPrefix(type, "BROADCAST") THEN 1
    ELSE IF hasPrefix(type, "URGENT") THEN 0
    ELSE 2

channelCapability(type) ==
    IF hasPrefix(type, "URGENT") THEN 0
    ELSE IF hasPrefix(type, "BROADCAST") THEN 1
    ELSE 2

\* One pass of the loop "Resolve base type of arrays": the sizes compared,
\* given what evaluating them gave.
compareSizes(argSize, paramSize) ==
    IF argSize.ok /\ paramSize.ok
    THEN When(argSize.v # paramSize.v, handleError(
           "Parameter array size does not match argument array size"))
    ELSE assertFails

\* The outcome of a loop whose first pass gave step and whose later passes
\* gave rest.
afterStep(step, paramType, argType, rest) ==
    IF step.ab
    THEN [r |-> step, ret |-> TRUE, paramType |-> paramType, argType |-> argType]
    ELSE [rest EXCEPT !.r = Then(step, @)]

RECURSIVE resolveArrays(_, _, _)
\* The loop "Resolve base type of arrays" of checkParameterCompatible:
\* the outcome, whether the function returned inside the loop, and the
\* element types the loop ends with.
resolveArrays(val, paramType, argType) ==
    IF paramType.base # "ARRAY"
    THEN [r |-> Ok, ret |-> FALSE, paramType |-> paramType, argType |-> argType]
    ELSE IF argType.base # "ARRAY"
    THEN [r |-> handleError("Incompatible argument to array parameter"),
          ret |-> TRUE, paramType |-> paramType, argType |-> argType]
    ELSE afterStep(compareSizes(evaluate(val, getArraySize(argType)),
                                evaluate(val, getArraySize(paramType))),
                   paramType, argType,
                   resolveArrays(val, getSub(paramType), getSub(argType)))

\* A faulty case a that asks equal ranges of every reference parameter.
checkDeclaredRangeEqual(ref, constant, paramRange, argRange, paramType, argType) ==
    IF paramRange.ok /\ argRange.ok
    THEN IF ref /\ ~rangeEqual(argRange.r, paramRange.r)
         THEN handleError(
           "Range of argument does not match range of formal parameter")
         ELSE When(rangeIsEmpty(rangeIntersect(paramRange.r, argRange.r)),
                handleError(
           "Range of argument is outside of the range of the formal parameter"))
    ELSE When(ref /\ (~equal(getRangeFirst(paramType), getRangeFirst(argType))
                      \/ ~equal(getRangeSecond(paramType),
                                getRangeSecond(argType))),
              handleError(
           "Range of argument does not match range of formal parameter"))

\* Case a of the INT rule (left value argument): the declared ranges,
\* given what evaluating them gave.
checkDeclaredRange(ref, constant, paramRange, argRange, paramType, argType) ==
    IF paramRange.ok /\ argRange.ok
    THEN IF ref /\ ~constant /\ ~rangeEqual(argRange.r, paramRange.r)
         THEN handleError(
           "Range of argument does not match range of formal parameter")
         ELSE IF ref /\ constant /\ ~rangeContains(paramRange.r, argRange.r)
         THEN handleError(
           "Range of argument is outside of the range of the formal parameter")
         ELSE When(rangeIsEmpty(rangeIntersect(paramRange.r, argRange.r)),
                handleError(
           "Range of argument is outside of the range of the formal parameter"))
    ELSE When(ref /\ (~equal(getRangeFirst(paramType), getRangeFirst(argType))
                      \/ ~equal(getRangeSecond(paramType),
                                getRangeSecond(argType))),
              handleError(
           "Range of argument does not match range of formal parameter"))

\* Case b of the INT rule: the value of the argument, given what evaluating
\* the parameter's range and the argument gave.
checkValueRange(paramRange, value) ==
    When(paramRange.ok /\ value.ok
         /\ ~rangeContains(paramRange.r, joinValues(value.vs)),
         handleError(
           "Range of argument is outside of the range of the formal parameter"))

\* The INT case of checkParameterCompatible for a parameter with a range.
checkIntegerRange(val, ref, constant, lhs, paramType, argType, arg) ==
    IF lhs
    THEN checkDeclaredRange(ref, constant, evaluateRange(val, paramType),
                            evaluateRange(val, argType), paramType, argType)
    ELSE checkValueRange(evaluateRange(val, paramType),
                         evaluateVector(val, arg))

\* checkParameterCompatible from "The parameter and the argument must have
\* the same base type" on; loop is what the array loop gave.
checkBase(val, ref, constant, lhs, loop, arg) ==
    LET pt == loop.paramType
        at == loop.argType
        base == pt.base
    IN  IF loop.ret THEN loop.r
        ELSE Then(loop.r,
          IF pt.base # at.base THEN handleError("Incompatible argument")
          ELSE IF base \in {"CLOCK", "BOOL"} THEN Ok
          ELSE IF base = "INT"
          THEN IF empty(getRangeFirst(pt)) THEN Ok
               ELSE checkIntegerRange(val, ref, constant, lhs, pt, at, arg)
          ELSE IF base = "RECORD"
          THEN When(~sameFrame(getRecordFields(pt), getRecordFields(at)),
                    handleError("Argument has incompatible type"))
          ELSE IF base = "CHANNEL"
          THEN When(channelCapability(at) < channelCapability(pt),
                    handleError("Incompatible channel type"))
          ELSE assertFails)

\* checkParameterCompatible after the conversion between booleans and
\* integers, which left the argument with type argType and lhs.
checkConverted(val, paramType, arg, argType, lhs) ==
    LET ref == hasPrefix(paramType, "REFERENCE")
        constant == hasPrefix(paramType, "CONSTANT")
    IN  IF ref /\ ~constant /\ ~lhs
        THEN handleError("Reference parameter requires left value argument")
        ELSE checkBase(val, ref, constant, lhs,
                       resolveArrays(val, paramType, argType), arg)

\* The conversion of a non-reference parameter's argument: "int" for
\* BOOL to INT, "bool" for INT to BOOL, "" for none.
conversion(paramType, arg) ==
    IF hasPrefix(paramType, "REFERENCE") THEN ""
    ELSE IF paramType.base = "INT" /\ arg.type.base = "BOOL" THEN "int"
    ELSE IF paramType.base = "BOOL" /\ arg.type.base = "INT" THEN "bool"
    ELSE ""

convertedType(conv, arg) ==
    IF conv = "int" THEN IntRange(Const(0), Const(1))
    ELSE IF conv = "bool" THEN BoolType
    ELSE arg.type

checkParameterCompatible(val, paramType, arg) ==
    checkConverted(val, paramType, arg,
                   convertedType(conversion(paramType, arg), arg),
                   isLHSValue(arg) /\ conversion(paramType, arg) = "")

----------------------------------------------------------------------------
(* The annotator *)

NoType == VoidType

\* A faulty case MINUS that also takes an integer minus a clock.
typeOfMinusEitherSide(left, right) ==
    IF (isClock(left) /\ isInteger(right)) \/ (isInteger(left) /\ isClock(right))
    THEN ClockType
    ELSE IF (isDiff(left) /\ isInteger(right))
            \/ (isInteger(left) /\ isDiff(right))
            \/ (isClock(left) /\ isClock(right))
    THEN Type("DIFF")
    ELSE NoType

\* case MINUS of typeOfBinaryNonInt
typeOfMinus(left, right) ==
    IF isClock(left) /\ isInteger(right)
    THEN ClockType
    ELSE IF (isDiff(left) /\ isInteger(right))
            \/ (isInteger(left) /\ isDiff(right))
            \/ (isClock(left) /\ isClock(right))
    THEN Type("DIFF")
    ELSE NoType

\* A faulty case AND that widens every conjunction to CONSTRAINT.
typeOfAndWidened(left, right) ==
    IF isConstraint(left) /\ isConstraint(right) THEN Type("CONSTRAINT")
    ELSE NoType

\* case AND of typeOfBinaryNonInt
typeOfAnd(left, right) ==
    IF isInvariant(left) /\ isInvariant(right) THEN Type("INVARIANT")
    ELSE IF isGuard(left) /\ isGuard(right) THEN Type("GUARD")
    ELSE IF isConstraint(left) /\ isConstraint(right) THEN Type("CONSTRAINT")
    ELSE NoType

typeOfBinaryNonInt(left, binaryop, right) ==
    CASE binaryop = "PLUS" ->
            IF (isInteger(left) /\ isClock(right))
               \/ (isClock(left) /\ isInteger(right))
            THEN ClockType
            ELSE IF (isDiff(left) /\ isInteger(right))
                    \/ (isInteger(left) /\ isDiff(right))
            THEN Type("DIFF")
            ELSE NoType
      [] binaryop = "MINUS" -> typeOfMinus(left, right)
      [] binaryop = "AND" -> typeOfAnd(left, right)
      [] binaryop = "OR" ->
            IF isConstraint(left) /\ isConstraint(right)
            THEN Type("CONSTRAINT")
            ELSE NoType
      [] binaryop \in {"LT", "LE"} ->
            IF (isClock(left) /\ isClock(right))
               \/ (isClock(left) /\ isInteger(right))
               \/ (isDiff(left) /\ isInteger(right))
               \/ (isInteger(left) /\ isDiff(right))
            THEN Type("INVARIANT")
            ELSE IF isInteger(left) /\ isClock(right) THEN Type("GUARD")
            ELSE NoType
      [] binaryop = "EQ" ->
            IF (isClock(left) /\ isClock(right))
               \/ (isClock(left) /\ isInteger(right))
               \/ (isInteger(left) /\ isClock(right))
               \/ (isDiff(left) /\ isInteger(right))
               \/ (isInteger(left) /\ isDiff(right))
            THEN Type("GUARD")
            ELSE NoType
      [] binaryop = "NEQ" ->
            IF (isClock(left) /\ isClock(right))
               \/ (isClock(left) /\ isInteger(right))
               \/ (isInteger(left) /\ isClock(right))
               \/ (isDiff(left) /\ isInteger(right))
               \/ (isInteger(left) /\ isDiff(right))
            THEN Type("CONSTRAINT")
            ELSE NoType
      [] binaryop \in {"GE", "GT"} ->
            IF (isClock(left) /\ isClock(right))
               \/ (isInteger(left) /\ isClock(right))
               \/ (isDiff(left) /\ isInteger(right))
               \/ (isInteger(left) /\ isDiff(right))
            THEN Type("INVARIANT")
            ELSE IF isClock(left) /\ isGuard(right) THEN Type("GUARD")
            ELSE NoType
      [] OTHER -> NoType

RECURSIVE areInlineIfCompatible(_, _)
areInlineIfCompatible(thenArg, elseArg) ==
    LET thenBase == thenArg.base
        elseBase == elseArg.base
    IN  CASE thenBase \in {"INT", "BOOL"} -> elseBase \in {"INT", "BOOL"}
          [] thenBase = "CLOCK" -> elseBase = "CLOCK"
          [] thenBase = "CHANNEL" ->
                /\ elseBase = "CHANNEL"
                /\ hasPrefix(thenArg, "URGENT") = hasPrefix(elseArg, "URGENT")
                /\ hasPrefix(thenArg, "BROADCAST")
                   = hasPrefix(elseArg, "BROADCAST")
          [] thenBase = "ARRAY" ->
                /\ elseBase = "ARRAY"
                /\ equal(getArraySize(thenArg), getArraySize(elseArg))
                /\ areInlineIfCompatible(getSub(thenArg), getSub(elseArg))
          [] thenBase = "RECORD" ->
                /\ elseBase = "RECORD"
                /\ sameFrame(getRecordFields(thenArg), getRecordFields(elseArg))
          [] OTHER -> FALSE

areAssignmentCompatible(lvalue, rvalue) ==
    LET lbase == lvalue.base
        rbase == rvalue.base
    IN  IF lbase = "VOID" THEN FALSE
        ELSE IF lbase \in {"CLOCK", "INT", "BOOL"}
        THEN rbase \in {"INT", "BOOL"}
        ELSE IF lbase = "RECORD"
        THEN rbase = "RECORD"
             /\ ~sameFrame(getRecordFields(lvalue), getRecordFields(rvalue))
        ELSE FALSE

RECURSIVE checkArguments(_, _, _)
\* The loop of checkFunctionCallArguments over parameters[n], expr[n + 1].
checkArguments(parameters, expr, n) ==
    IF n > Len(parameters) THEN Ok
    ELSE Then(checkParameterCompatible(ConstantValuation,
                                       parameters[n].type, expr.args[n + 1]),
              checkArguments(parameters, expr, n + 1))

RECURSIVE tooMany(_)
tooMany(n) ==
    IF n = 0 THEN Ok ELSE Then(handleError("Too many arguments"), tooMany(n - 1))

checkFunctionCallArguments(expr) ==
    LET parameters == expr.args[1].type.frame.fields
        given == Len(expr.args) - 1
    IN  IF Len(parameters) > given THEN handleError("Too few arguments")
        ELSE IF Len(parameters) < given
        THEN tooMany(given - Len(parameters))
        ELSE checkArguments(parameters, expr, 1)

BinaryKinds ==
    {"PLUS", "MINUS", "MULT", "DIV", "MOD", "BIT_AND", "BIT_OR", "BIT_XOR",
     "BIT_LSHIFT", "BIT_RSHIFT", "AND", "OR", "MIN", "MAX", "LT", "LE", "GE",
     "GT"}

\* The outcome of a typing step of annotate(): the diagnostics, whether
\* the type slot is set, and the type it is set to.
setType(r, t) == [r |-> r, set |-> TRUE, type |-> t]

\* The result of typeOfBinaryNonInt as annotate() uses it.
orConstraint(type) ==
    IF type = NoType
    THEN setType(handleError("Invalid operands to binary operator"),
                 Type("CONSTRAINT"))
    ELSE setType(Ok, type)

\* The switch of annotate() on a node whose children are annotated.
annotateNode(expr) ==
    LET k == expr.kind
        e0 == expr.args[1]
        e1 == expr.args[2]
        e2 == expr.args[3]
    IN  CASE k \in {"EQ", "NEQ"} ->
                IF isInteger(e0) /\ isInteger(e1) THEN setType(Ok, IntType)
                ELSE IF e0.type.base = "RECORD"
                        /\ sameFrame(getRecordFields(e0.type),
                                     getRecordFields(e1.type))
                THEN setType(Ok, IntType)
                ELSE orConstraint(typeOfBinaryNonInt(e0, k, e1))
          [] k \in BinaryKinds ->
                IF isInteger(e0) /\ isInteger(e1) THEN setType(Ok, IntType)
                ELSE orConstraint(typeOfBinaryNonInt(e0, k, e1))
          [] k = "NOT" ->
                IF isInteger(e0) THEN setType(Ok, IntType)
                ELSE IF isConstraint(e0) THEN setType(Ok, Type("CONSTRAINT"))
                ELSE setType(handleError("Invalid operation for type"), IntType)
          [] k = "UNARY_MINUS" ->
                setType(When(~isInteger(e0),
                             handleError("Invalid operation for type")),
                        IntType)
          [] k = "ASSIGN" ->
                setType(IF ~areAssignmentCompatible(e0.type, e1.type)
                        THEN handleError("Incompatible types")
                        ELSE When(~isLHSValue(e0),
                                  handleError("Left hand side value expected")),
                        e0.type)
          [] k \in AssignKinds \ {"ASSIGN"} ->
                setType(IF ~isInteger(e0) \/ ~isInteger(e1)
                        THEN handleError(
                          "Non-integer types must use regular assignment operator.")
                        ELSE When(~isLHSValue(e0),
                                  handleError("Left hand side value expected")),
                        e0.type)
          [] k \in IncDecKinds ->
                setType(IF e0.type.base # "INT"
                        THEN handleError("Argument must be an integer value")
                        ELSE When(~isLHSValue(e0),
                                  handleError("Left hand side value expected")),
                        IntType)
          [] k = "INLINEIF" ->
                setType(Then(When(~isInteger(e0), handleError(
                               "First argument of inline if must be an integer")),
                             When(~areInlineIfCompatible(e1.type, e2.type),
                                  handleError(
                                    "Incompatible arguments to inline if"))),
                        e1.type)
          [] k = "COMMA" ->
                setType(When((~isInteger(e0) /\ ~isClock(e0) /\ ~isRecord(e0))
                             \/ (~isInteger(e1) /\ ~isClock(e1) /\ ~isRecord(e1)),
                             handleError(
                               "Arguments must be of integer, clock or record type")),
                        e1.type)
          [] k = "FUNCALL" ->
                [r |-> IF e0.type.base # "FUNCTION"
                       THEN handleError("A function name was expected here")
                       ELSE checkFunctionCallArguments(expr),
                 set |-> FALSE, type |-> expr.type]
          [] OTHER -> [r |-> Ok, set |-> FALSE, type |-> expr.type]

\* expr.setType(type) at the end of annotate(), after typing step n.
typed(expr, n) ==
    [e |-> IF n.set /\ ~n.r.ab THEN [expr EXCEPT !.type = n.type] ELSE expr,
     r |-> n.r]

\* annotate() of a node whose children gave sub.
annotateParent(expr, sub) ==
    IF sub.r.ab THEN [e |-> [expr EXCEPT !.args = sub.es], r |-> sub.r]
    ELSE [typed([expr EXCEPT !.args = sub.es],
                annotateNode([expr EXCEPT !.args = sub.es]))
            EXCEPT !.r = Then(sub.r, @)]

\* The children of a node: the first gave h, the others give rest.
withFirst(h, args, rest) ==
    IF h.r.ab THEN [es |-> <<h.e>> \o Tail(args), r |-> h.r]
    ELSE [es |-> <<h.e>> \o rest.es, r |-> Then(h.r, rest.r)]

RECURSIVE annotate(_)
RECURSIVE annotateChildren(_)
\* annotate(expr[i]) for every child, in order.
annotateChildren(args) ==
    IF args = <<>> THEN [es |-> <<>>, r |-> Ok]
    ELSE withFirst(annotate(Head(args)), args, annotateChildren(Tail(args)))

\* annotate(expr): the annotated expression and the outcome.
annotate(expr) ==
    IF empty(expr) THEN [e |-> expr, r |-> Ok]
    ELSE annotateParent(expr, annotateChildren(expr.args))

----------------------------------------------------------------------------
(* Initialisers.  An InitialiserException is caught in                     *)
(* checkInitialiser(variable), which hands its message to handleError; a   *)
(* throw is therefore the diagnostic plus the flag that unwinding began.   *)

Initialised == [d |-> <<>>, thrown |-> FALSE]
throw(m) == [d |-> <<Err(m)>>, thrown |-> TRUE]
\* x followed by y; y does not run when x threw.
Before(x, y) ==
    IF x.thrown THEN x ELSE [d |-> x.d \o y.d, thrown |-> y.thrown]

\* size > (uint32_t)dim and size < (uint32_t)dim for a size below 2^31:
\* a negative dim converts to a value of at least 2^31.
aboveUint32(size, dim) == dim >= 0 /\ size > dim
belowUint32(size, dim) == dim < 0 \/ size < dim

\* frame_t::getIndexOf: the 0-based index of a field name, or -1.
getIndexOf(fields, name) ==
    IF \E n \in 1..Len(fields) : fields[n].name = name
    THEN (CHOOSE n \in 1..Len(fields) : fields[n].name = name) - 1
    ELSE -1

\* A list { e1, ..., en }; names[n] is the designator of en ("" if none).
\* The builder types a list by a frame of its own.
List(elems, names) ==
    mkExpr("LIST", elems,
           RecordOf([id |-> "list",
                     fields |-> [n \in 1..Len(elems) |->
                                   [name |-> names[n], type |-> elems[n].type]]]))

RECURSIVE checkInitialiserType(_, _)
RECURSIVE checkElements(_, _, _)
RECURSIVE checkFields(_, _, _, _, _)

\* The element loop of the ARRAY branch, from element n (1-based).
checkElements(subtype, init, n) ==
    LET fields == getRecordFields(init.type).fields
    IN  IF n > Len(fields) THEN Initialised
        ELSE IF fields[n].name # ""
        THEN throw("Unknown field specified in initialiser")
        ELSE Before(checkInitialiserType(subtype, init.args[n]),
                    checkElements(subtype, init, n + 1))

\* The ARRAY branch once the initialiser is known to be a list; dim is what
\* evaluating the array size gave.
checkArray(type, init, dim) ==
    IF ~dim.ok
    THEN throw("Arrays with parameterized size cannot have an initialiser")
    ELSE IF aboveUint32(Len(init.args), dim.v)
    THEN throw("Excess elements in array initialiser")
    ELSE Before(checkElements(getSub(type), init, 1),
           IF belowUint32(Len(getRecordFields(init.type).fields), dim.v)
           THEN throw("Missing fields in initialiser")
           ELSE Initialised)

\* A faulty checkInRange that tests the upper bound only.
checkInRangeAbove(n, range) ==
    IF n.ok /\ range.ok /\ n.v > range.r.hi
    THEN [d |-> <<Err("Initialiser is out of range")>>, thrown |-> TRUE]
    ELSE [d |-> <<>>, thrown |-> FALSE]

\* The INT branch for a type with a range; n and range are what evaluating
\* the initialiser and the range gave.
checkInRange(n, range) ==
    IF n.ok /\ range.ok /\ ~rangeContainsValue(range.r, n.v)
    THEN throw("Initialiser is out of range")
    ELSE Initialised

\* An element of the RECORD loop that is checked against field cur gave one;
\* the elements after it give rest.
afterField(one, cur, has, rest) ==
    IF one.thrown THEN [d |-> one.d, thrown |-> TRUE, has |-> has \cup {cur}]
    ELSE [rest EXCEPT !.d = one.d \o @]

\* Element n of the RECORD loop, with the cursor at cur (0-based).
checkField(fields, init, n, cur, has) ==
    IF cur = -1
    THEN [d |-> <<Err("Unknown field")>>, thrown |-> FALSE, has |-> has]
    ELSE IF cur >= Len(fields)
    THEN [d |-> <<Err("Excess elements in intialiser")>>, thrown |-> FALSE,
          has |-> has]
    ELSE IF cur \in has
    THEN [checkFields(fields, init, n + 1, cur + 1, has)
            EXCEPT !.d = <<Err("Multiple initialisers for field")>> \o @]
    ELSE afterField(checkInitialiserType(fields[cur + 1].type, init.args[n]),
                    cur, has,
                    checkFields(fields, init, n + 1, cur + 1, has \cup {cur}))

\* The element loop of the RECORD branch, from element n (1-based) with
\* the cursor at current (0-based); has is the set of initialised fields.
checkFields(fields, init, n, current, has) ==
    LET initialisers == getRecordFields(init.type).fields
    IN  IF n > Len(initialisers)
        THEN [d |-> <<>>, thrown |-> FALSE, has |-> has]
        ELSE checkField(fields, init, n,
                        IF initialisers[n].name # ""
                        THEN getIndexOf(fields, initialisers[n].name)
                        ELSE current,
                        has)

\* A faulty checkComplete that accepts fields without an initialiser.
checkCompleteNever(fields, loop) ==
    [d |-> loop.d, thrown |-> loop.thrown]

\* The end of the RECORD branch; loop is what the element loop gave.
checkComplete(fields, loop) ==
    IF loop.thrown THEN [d |-> loop.d, thrown |-> TRUE]
    ELSE Before([d |-> loop.d, thrown |-> FALSE],
           IF \E n \in 0..(Len(fields) - 1) : n \notin loop.has
           THEN throw("Incomplete initialiser")
           ELSE Initialised)

\* checkInitialiser(type_t, expression_t)
checkInitialiserType(type, init) ==
    LET base == type.base
    IN  CASE base = "ARRAY" ->
                IF init.kind # "LIST" THEN throw("Invalid array initialiser")
                ELSE checkArray(type, init,
                       evaluate(ConstantValuation, getArraySize(type)))
          [] base = "BOOL" ->
                IF ~isInteger(init) THEN throw("Invalid initialiser")
                ELSE Initialised
          [] base = "INT" ->
                IF ~isInteger(init) THEN throw("Invalid initialiser")
                ELSE IF empty(getRangeFirst(type)) THEN Initialised
                ELSE checkInRange(evaluate(ConstantValuation, init),
                                  evaluateRange(ConstantValuation, type))
          [] base = "RECORD" ->
                IF sameFrame(getRecordFields(type), getRecordFields(init.type))
                THEN Initialised
                ELSE IF init.kind # "LIST"
                THEN throw("Invalid initialiser for struct")
                ELSE checkComplete(getRecordFields(type).fields,
                       checkFields(getRecordFields(type).fields, init, 1, 0, {}))
          [] OTHER -> Initialised

\* checkInitialiser(variable_t &) after annotate(var.expr), which gave a.
checkAnnotatedInitialiser(type, a) ==
    Then(a.r,
      IF dependsOn(a.e, persistentVariables)
      THEN handleError("Constant expression expected")
      ELSE IF ~isSideEffectFree(a.e)
      THEN handleError("Initialiser must not have side effects")
      ELSE [d |-> checkInitialiserType(type, a.e).d, ab |-> FALSE])

\* checkInitialiser(variable_t &): var is [type, expr].
checkInitialiser(var) ==
    IF empty(var.expr) THEN Ok
    ELSE checkAnnotatedInitialiser(var.type, annotate(var.expr))

----------------------------------------------------------------------------
(* Declarations *)

\* annotateAndExpectConstantInteger after annotate(expr), which gave a.
expectConstantInteger(a) ==
    Then(a.r,
      IF ~isInteger(a.e) THEN handleError("Integer expression expected")
      ELSE When(dependsOn(a.e, persistentVariables),
                handleError("Constant expression expected")))

annotateAndExpectConstantInteger(expr) == expectConstantInteger(annotate(expr))

RECURSIVE checkType(_)
checkType(type) ==
    LET base == type.base
    IN  IF base = "INT"
        THEN IF empty(getRangeFirst(type)) THEN Ok
             ELSE Then(annotateAndExpectConstantInteger(getRangeFirst(type)),
                       annotateAndExpectConstantInteger(getRangeSecond(type)))
        ELSE IF base = "ARRAY"
        THEN Then(annotateAndExpectConstantInteger(getArraySize(type)),
                  checkType(getSub(type)))
        ELSE IF base = "RECORD" THEN assertFails
        ELSE Ok

checkVariableDeclaration(variable) ==
    Then(checkType(variable.type), checkInitialiser(variable))

----------------------------------------------------------------------------
(* States, transitions, instances, properties *)

\* visitState after annotate(state.invariant), which gave a.
checkInvariant(a) ==
    Then(a.r,
      Then(When(~isInvariant(a.e), handleError("Invalid invariant expression")),
           When(~isSideEffectFree(a.e),
                handleError("Invariant must be side effect free"))))

visitState(state) ==
    IF empty(state.invariant) THEN Ok
    ELSE checkInvariant(annotate(state.invariant))

\* A faulty checkGuard without the side-effect test.
checkGuardOnly(a) ==
    Then(a.r, When(~isGuard(a.e), handleError("Invalid guard")))

\* The guard part of visitTransition after annotate(transition.guard),
\* which gave a.
checkGuard(a) ==
    Then(a.r,
      IF ~isGuard(a.e) THEN handleError("Invalid guard")
      ELSE When(~isSideEffectFree(a.e),
                handleError("Guard must be side effect free")))

\* A faulty checkSync that treats a broadcast sender as a receiver.
checkSyncAnyKind(guard, a) ==
    LET channel == a.e.args[1].type
        hasClockGuard == ~empty(guard) /\ ~isInteger(guard)
    IN  Then(a.r,
        Then(When(~isSideEffectFree(a.e),
                  handleError("Synchronisation must be side effect free")),
        Then(When(channel.base # "CHANNEL", assertFails),
        Then(When(hasPrefix(channel, "URGENT") /\ hasClockGuard, handleError(
              "Clock guards are not allowed on urgent transitions.")),
             When(hasPrefix(channel, "BROADCAST") /\ hasClockGuard, handleError(
              "Clock guards are not allowed on broadcast receivers."))))))

\* The sync part of visitTransition after annotate(transition.sync), which
\* gave a; guard is the annotated guard.
checkSync(guard, a) ==
    LET channel == a.e.args[1].type
        hasClockGuard == ~empty(guard) /\ ~isInteger(guard)
        isUrgent == hasPrefix(channel, "URGENT")
        receivesBroadcast ==
            hasPrefix(channel, "BROADCAST") /\ a.e.sync = "SYNC_QUE"
    IN  Then(a.r,
        Then(When(~isSideEffectFree(a.e),
                  handleError("Synchronisation must be side effect free")),
        Then(When(channel.base # "CHANNEL", assertFails),
        Then(When(isUrgent /\ hasClockGuard, handleError(
              "Clock guards are not allowed on urgent transitions.")),
             When(receivesBroadcast /\ hasClockGuard, handleError(
              "Clock guards are not allowed on broadcast receivers."))))))

\* The assignment part of visitTransition after annotate(transition.assign),
\* which gave a.
checkAssign(a) ==
    Then(a.r,
    Then(When(~isInteger(a.e) /\ ~isClock(a.e) /\ ~isRecord(a.e),
              handleError("Invalid assignment expression")),
         When(~(a.e.kind = "CONSTANT" /\ a.e.value = 1)
              /\ isSideEffectFree(a.e),
              handleWarning("Expression does not have any effect"))))

\* visitTransition after annotate(transition.guard), which gave g.
checkTransition(transition, g) ==
    Then(checkGuard(g),
    Then(IF empty(transition.sync) THEN Ok
         ELSE checkSync(g.e, annotate(transition.sync)),
         checkAssign(annotate(transition.assign))))

visitTransition(transition) ==
    checkTransition(transition, annotate(transition.guard))

\* Interpreter(system->getConstantValuation()) with addValuation(mapping):
\* a parameter has the value of its argument where that is computable.
instanceValuation(mapping) ==
    LET bound == {n \in 1..Len(mapping) :
                    evaluate(ConstantValuation, mapping[n].arg).ok}
        names == {mapping[n].name : n \in bound}
    IN  [s \in DOMAIN ConstantValuation \cup names |->
           IF s \in names
           THEN evaluate(ConstantValuation,
                         mapping[CHOOSE m \in bound : mapping[m].name = s].arg).v
           ELSE ConstantValuation[s]]

\* A faulty checkArgument without the classification step.
checkArgumentUnclassified(val, parameter, a) ==
    Then(a.r,
      IF ~isSideEffectFree(a.e)
      THEN handleError("Argument must be side effect free")
      ELSE checkParameterCompatible(val, parameter, a.e))

\* A faulty checkArgument that accepts any left value for a reference.
checkArgumentLeftValue(val, parameter, a) ==
    Then(a.r,
      IF ~isSideEffectFree(a.e)
      THEN handleError("Argument must be side effect free")
      ELSE IF ~(hasPrefix(parameter, "REFERENCE")
                /\ hasPrefix(parameter, "CONSTANT")
                /\ ~dependsOn(a.e, persistentVariables))
              /\ ~(IF hasPrefix(parameter, "REFERENCE") THEN isLHSValue(a.e)
                   ELSE ~dependsOn(a.e, persistentVariables))
      THEN handleError("Incompatible argument")
      ELSE checkParameterCompatible(val, parameter, a.e))

\* One iteration of the loop of visitInstance after annotate(argument),
\* which gave a.
checkArgument(val, parameter, a) ==
    LET ref == hasPrefix(parameter, "REFERENCE")
        constant == hasPrefix(parameter, "CONSTANT")
        computable == ~dependsOn(a.e, persistentVariables)
    IN  Then(a.r,
          IF ~isSideEffectFree(a.e)
          THEN handleError("Argument must be side effect free")
          ELSE IF ~(ref /\ constant /\ computable)
                  /\ ~(IF ref THEN isUniqueReference(a.e) ELSE computable)
          THEN handleError("Incompatible argument")
          ELSE checkParameterCompatible(val, parameter, a.e))

RECURSIVE checkArgumentsFrom(_, _, _)
\* The loop of visitInstance from entry n of the mapping.
checkArgumentsFrom(val, mapping, n) ==
    IF n > Len(mapping) THEN Ok
    ELSE Then(checkArgument(val, mapping[n].type, annotate(mapping[n].arg)),
              checkArgumentsFrom(val, mapping, n + 1))

\* instance.mapping is a sequence of [name, type, arg].
visitInstance(instance) ==
    checkArgumentsFrom(instanceValuation(instance.mapping), instance.mapping, 1)

\* A faulty checkProperty that tests a leads-to query as a whole.
checkPropertyWhole(a) ==
    Then(a.r,
    Then(When(~isSideEffectFree(a.e),
              handleError("Property must be side effect free")),
         When(~isConstraint(a.e),
              handleError("Property must be a constraint"))))

\* visitProperty after annotate(expr), which gave a.
checkProperty(a) ==
    Then(a.r,
    Then(When(~isSideEffectFree(a.e),
              handleError("Property must be side effect free")),
         When((a.e.kind = "LEADSTO"
               /\ ~(isConstraint(a.e.args[1]) /\ isConstraint(a.e.args[2])))
              \/ (a.e.kind # "LEADSTO" /\ ~isConstraint(a.e)),
              handleError("Property must be a constraint"))))

visitProperty(expr) == checkProperty(annotate(expr))

----------------------------------------------------------------------------
(* The nodes of the systems under check *)

IntCompare == Binary("LT", Ident("i"), Const(3))        \* i < 3
ClockUpper == Binary("LT", Ident("x"), Const(5))        \* x < 5
ClockLower == Binary("GT", Ident("x"), Const(5))        \* x > 5
ClockNeq == Binary("NEQ", Ident("x"), Const(1))         \* x != 1
ClockSum == Binary("PLUS", Ident("x"), Const(1))        \* x + 1
Sum == Binary("PLUS", Const(1), Const(2))               \* 1 + 2
AssignI == Binary("ASSIGN", Ident("i"), Const(1))       \* i = 1
ClockReset == Binary("ASSIGN", Ident("x"), Const(1))    \* x = 1
SameRangeIf == InlineIf(Ident("b"), Ident("i"), Ident("i"))  \* b ? i : i

Invariants ==
    {Empty, IntCompare, ClockUpper, ClockLower, AssignI, ClockReset}
States == {[visit |-> "state", invariant |-> e] : e \in Invariants}

\* Guards: none, an integer guard, clock guards, and guards with an effect.
Guards == {Empty, IntCompare, ClockLower, ClockNeq}
EffectGuards == {AssignI, ClockReset}
ChannelNames == {"c", "u", "bc", "ub"}
ChannelSyncs ==
    {Sync(Ident(ch), s) : ch \in ChannelNames, s \in {"SYNC_BANG", "SYNC_QUE"}}
\* ca[i++]!
EffectSync ==
    Sync(Index(Ident("ca"), Unary("POSTINCREMENT", Ident("i"))), "SYNC_BANG")
\* The builder's assignment of a transition that has none: the constant 1.
NoAssign == Const(1)
Assigns == {AssignI, Sum, ClockUpper}
Transition(g, s, a) ==
    [visit |-> "transition", guard |-> g, sync |-> s, assign |-> a]
Transitions ==
    {Transition(g, s, NoAssign) : g \in Guards, s \in ChannelSyncs \cup {Empty}}
    \cup {Transition(g, s, NoAssign) :
            g \in EffectGuards, s \in {Empty, Sync(Ident("u"), "SYNC_BANG")}}
    \cup {Transition(g, EffectSync, NoAssign) : g \in {Empty, ClockLower}}
    \cup {Transition(Empty, Empty, a) : a \in Assigns}

Variables ==
    {[visit |-> "variable", type |-> t, expr |-> e] :
        t \in {IntRange(Const(0), Const(10)), IntRange(Const(0), Ident("i")),
               RecordOf(FrameF)},
        e \in {Empty, Const(5), Const(42), AssignI}}

Reference == {"REFERENCE"}
ConstReference == {"REFERENCE", "CONSTANT"}
Modes == {{}, {"CONSTANT"}, Reference, ConstReference}
\* 1 + 2, i, N, a[i], a[1], i = 1
Arguments ==
    {Sum, Ident("i"), Ident("N"), Index(Ident("a"), Ident("i")),
     Index(Ident("a"), Const(1)), AssignI}
Binding(name, type, arg) == [name |-> name, type |-> type, arg |-> arg]
\* Instantiations of T(int[0,5] p) in every passing mode, and of T(int &p).
SingleBindings ==
    {Binding("p", withPrefix(IntRange(Const(0), Const(5)), m), e) :
        m \in Modes, e \in Arguments}
    \cup {Binding("p", withPrefix(IntType, Reference), e) : e \in Arguments}
\* Bindings of a template T(const int n, int &a[n], ... p): the size of
\* parameter a is the value of n in the instantiation.
PairedBindings ==
    {Binding("n", withPrefix(IntType, {"CONSTANT"}), Ident("i")),
     Binding("n", withPrefix(IntType, {"CONSTANT"}), Const(2)),
     Binding("a", withPrefix(ArrayOf(Ident0("n"), IntRange(Const(0), Const(10))),
                             Reference), Ident("a")),
     Binding("p", withPrefix(IntType, Reference), Sum),
     Binding("p", IntType, AssignI)}
Instances ==
    {[visit |-> "instance", mapping |-> <<p>>] : p \in SingleBindings}
    \cup {[visit |-> "instance", mapping |-> m] :
            m \in {m \in PairedBindings \X PairedBindings :
                     m[1].name # m[2].name}}

Properties ==
    {[visit |-> "property", expr |-> e] :
        e \in {IntCompare, ClockNeq, ClockSum, AssignI, ClockReset,
               LeadsTo(IntCompare, ClockUpper), LeadsTo(IntCompare, ClockSum),
               LeadsTo(ClockSum, IntCompare),
               LeadsTo(AssignI, ClockSum)}}

----------------------------------------------------------------------------
(* A run of an entry point: parse, system->accept(checker), return.        *)

EntryPoints == {"parseXTA(file)", "parseXTA(buffer)", "parseXMLBuffer",
                "parseXMLFile"}
\* What the parser may have appended to the sink.
ParseDiagnostics == {<<>>, <<Err("syntax error")>>}

Init ==
    /\ pc = "start"
    /\ node = [visit |-> "none"]
    /\ mark = 0
    /\ sink = <<>>
    /\ visits = 0
    /\ ndebug \in BOOLEAN
    /\ result = FALSE

\* The entry point up to system->accept(checker).
Parse(entry) ==
    /\ pc = "start"
    /\ \E d \in ParseDiagnostics : sink' = sink \o d
    /\ mark' = Len(sink)
    /\ node' = [visit |-> "parse", entry |-> entry]
    /\ pc' = "checking"
    /\ UNCHANGED <<visits, ndebug, result>>

parseXTAFile == Parse("parseXTA(file)")
parseXTABuffer == Parse("parseXTA(buffer)")
parseXMLBuffer == Parse("parseXMLBuffer")
parseXMLFile == Parse("parseXMLFile")

\* The checker handles node n with outcome r.
Visit(n, r) ==
    /\ pc = "checking"
    /\ visits < MaxVisits
    /\ sink' = sink \o r.d
    /\ mark' = Len(sink)
    /\ node' = n
    /\ visits' = visits + 1
    /\ pc' = IF r.ab THEN "aborted" ELSE "checking"
    /\ UNCHANGED <<ndebug, result>>

VisitState == \E n \in States : Visit(n, visitState(n))
VisitTransition == \E n \in Transitions : Visit(n, visitTransition(n))
VisitVariable == \E n \in Variables : Visit(n, checkVariableDeclaration(n))
VisitInstance == \E n \in Instances : Visit(n, visitInstance(n))
VisitProperty == \E n \in Properties : Visit(n, visitProperty(n.expr))

\* A faulty return that reports failure on any diagnostic.
ReturnOnEmpty ==
    /\ pc = "checking"
    /\ result' = (sink = <<>>)
    /\ pc' = "returned"
    /\ node' = [visit |-> "return"]
    /\ mark' = Len(sink)
    /\ UNCHANGED <<sink, visits, ndebug>>

\* return !error->hasErrors();
Return ==
    /\ pc = "checking"
    /\ result' = ~hasErrors(sink)
    /\ pc' = "returned"
    /\ node' = [visit |-> "return"]
    /\ mark' = Len(sink)
    /\ UNCHANGED <<sink, visits, ndebug>>

Next ==
    \/ parseXTAFile
    \/ parseXTABuffer
    \/ parseXMLBuffer
    \/ parseXMLFile
    \/ VisitState
    \/ VisitTransition
    \/ VisitVariable
    \/ VisitInstance
    \/ VisitProperty
    \/ Return

Spec == Init /\ [][Next]_vars

\* The diagnostics of the last step.
emitted == SubSeq(sink, mark + 1, Len(sink))

----------------------------------------------------------------------------
(* Runs of a single function on one input: the input is drawn in the       *)
(* initial state and the step applies the function to it.                  *)

InitInput(inputs) ==
    /\ ndebug \in BOOLEAN
    /\ pc = "input"
    /\ node \in inputs
    /\ mark = 0
    /\ sink = <<>>
    /\ visits = 0
    /\ result = FALSE

\* The function ran on the input with outcome r.
Finish(r) ==
    /\ pc = "input"
    /\ sink' = r.d
    /\ pc' = IF r.ab THEN "aborted" ELSE "done"
    /\ UNCHANGED <<node, mark, visits, ndebug, result>>

(* checkParameterCompatible(interpreter, paramType, arg) *)

ChannelPrefixes == SUBSET {"URGENT", "BROADCAST"}
ParameterTypes ==
    {withPrefix(Channel(ps), m) : ps \in ChannelPrefixes,
                                  m \in {{}, Reference, ConstReference}}
    \cup {withPrefix(ArrayOf(Const(2), Channel(ps)), Reference) :
            ps \in ChannelPrefixes}
    \cup {withPrefix(t, m) :
            t \in {IntType, IntRange(Const(0), Const(10)),
                   IntRange(Const(0), Const(5)), IntRange(Const(20), Const(30)),
                   IntRange(Const(0), Ident0("P")),
                   IntRange(Const(5), Const(0))},
            m \in {{}, Reference, ConstReference}}
    \cup {withPrefix(ArrayOf(n, IntRange(Const(0), Const(10))), Reference) :
            n \in {Const(2), Const(3), Ident0("N"), Ident0("P")}}
    \cup {withPrefix(RecordOf(FrameF), Reference), BoolType,
          withPrefix(ClockType, Reference)}
ParameterArguments ==
    {Ident(n) : n \in {"c", "u", "bc", "ub", "ca", "i", "j", "k", "ip", "a",
                       "ap", "b", "x", "r", "q", "N", "t", "z"}}
    \cup {Sum, Const(42), SameRangeIf,
          InlineIf(Ident("b"), Ident("i"), Ident("j")),
          InlineIf(Ident("b"), Ident("c"), Ident("u"))}
ParameterInputs ==
    {[visit |-> "parameter", type |-> t, arg |-> annotate(e).e] :
        t \in ParameterTypes, e \in ParameterArguments}

InitParameter == InitInput(ParameterInputs)
CheckParameter ==
    /\ node.visit = "parameter"
    /\ Finish(checkParameterCompatible(ConstantValuation, node.type, node.arg))
SpecParameter == InitParameter /\ [][CheckParameter]_vars

(* checkInitialiser(variable) *)

MinusOne == Unary("UNARY_MINUS", Const(1))
Bounds == {Const(0), Const(5), Const(10), MinusOne, Ident0("N"), Ident0("P")}
InitialisedTypes ==
    {IntRange(lo, hi) : lo \in Bounds, hi \in Bounds}
    \cup {IntType, BoolType,
          ArrayOf(Const(2), IntRange(Const(0), Const(10))),
          ArrayOf(Ident0("P"), IntRange(Const(0), Const(10))),
          RecordOf(FrameF)}
Initialisers ==
    {Const(n) : n \in {0, 3, 5, 10, 11, 42}}
    \cup {MinusOne, Sum, Ident("N"), Ident("P"), Ident("i"), Ident("b"),
          ClockSum, Call("f", IntType), Call("g", VoidType),
          List(<<Const(1), Const(2)>>, <<"", "">>),
          List(<<Const(1), Const(2), Const(3)>>, <<"", "", "">>),
          List(<<Const(1)>>, <<"">>),
          List(<<Const(1)>>, <<"m">>),
          List(<<Const(1), Const(42)>>, <<"", "">>)}
\* Lists of up to three elements 1 or 42, each with or without a
\* designator.
Designations == {"", "m", "n", "zz"}
Elements == {Const(1), Const(42)}
RecordInitialisers ==
    {List(<<>>, <<>>)}
    \cup {List(<<e>>, <<d>>) : e \in Elements, d \in Designations}
    \cup {List(<<e[1], e[2]>>, <<d[1], d[2]>>) :
            e \in Elements \X Elements, d \in Designations \X Designations}
    \cup {List(<<e[1], e[2], Const(1)>>, <<d[1], d[2], d[3]>>) :
            e \in Elements \X Elements,
            d \in Designations \X Designations \X Designations}
InitialiserInputs ==
    {[visit |-> "initialiser", type |-> t, expr |-> e] :
        t \in InitialisedTypes, e \in Initialisers}
    \cup {[visit |-> "initialiser", type |-> t, expr |-> e] :
            t \in {RecordOf(FrameH),
                   ArrayOf(Const(2), IntRange(Const(0), Const(10))),
                   ArrayOf(MinusOne, IntRange(Const(0), Const(10)))},
            e \in RecordInitialisers}
    \cup {[visit |-> "initialiser",
           type |-> ArrayOf(MinusOne, IntRange(Const(0), Const(10))),
           expr |-> Const(5)]}

InitInitialiser == InitInput(InitialiserInputs)
CheckInitialiser ==
    /\ node.visit = "initialiser"
    /\ Finish(checkInitialiser(node))
SpecInitialiser == InitInitialiser /\ [][CheckInitialiser]_vars

(* annotate(expr) *)

Operands ==
    {Ident(n) : n \in {"i", "b", "x", "c", "r", "q", "a", "N"}}
    \cup {Const(1), Call("f", IntType), Call("g", VoidType),
          Binary("MINUS", Ident("x"), Ident("y")),
          ClockUpper, ClockLower, ClockNeq, AssignI}
Expressions ==
    {Binary(k, l, r) :
        k \in {"EQ", "NEQ", "COMMA"} \cup BinaryKinds \cup AssignKinds,
        l \in Operands, r \in Operands}
    \cup {Unary(k, e) :
            k \in {"NOT", "UNARY_MINUS"} \cup IncDecKinds, e \in Operands}
    \cup {InlineIf(c, l, r) :
            c \in {Ident("b"), Ident("x")}, l \in Operands, r \in Operands}
AnnotateInputs ==
    {[visit |-> "annotate", expr |-> e, out |-> Empty] : e \in Expressions}

InitAnnotate == InitInput(AnnotateInputs)
Annotate ==
    /\ pc = "input"
    /\ node.visit = "annotate"
    /\ sink' = annotate(node.expr).r.d
    /\ node' = [node EXCEPT !.out = annotate(node.expr).e]
    /\ pc' = "done"
    /\ UNCHANGED <<mark, visits, ndebug, result>>
SpecAnnotate == InitAnnotate /\ [][Annotate]_vars

----------------------------------------------------------------------------
(* Properties *)

\* The first and only binding of an instantiation with one argument.
oneBinding == node.mapping[1]
hasOneBinding == node.visit = "instance" /\ Len(node.mapping) = 1

\* The expressions of a node that must be side-effect free: the invariant
\* of a state, the guard and the sync of a transition, the initialiser of
\* a variable, the arguments of an instantiation.
roles(n) ==
    (CASE n.visit = "state" -> {n.invariant}
       [] n.visit = "transition" -> {n.guard, n.sync}
       [] n.visit = "variable" -> {n.expr}
       [] n.visit = "instance" ->
            {n.mapping[k].arg : k \in 1..Len(n.mapping)}
       [] OTHER -> {}) \ {Empty}
changesPersistent(n) ==
    \E e \in roles(n) : changesVariable(e, persistentVariables)

\* C1: side-effect freedom.  A step that leaves the error sink without an
\* error-severity diagnostic started from a sink without one and visited a
\* node none of whose invariant, guard, sync, initialiser or instantiation
\* arguments changes a persistent symbol; hence, after any sequence of
\* visits, a sink without errors means every such expression visited is
\* side-effect free.
SideEffectFreedom ==
    [][(pc' # "aborted" /\ ~hasErrors(sink'))
         => (~hasErrors(sink) /\ ~changesPersistent(node'))]_vars
\* Two nodes were visited, the last one with a guard and a sync, and the
\* sink holds no error.
SideEffectFreeRun ==
    /\ pc = "checking"
    /\ visits > 1
    /\ node.visit = "transition"
    /\ Cardinality(roles(node)) > 1
    /\ ~hasErrors(sink)

urgentMessage == "Clock guards are not allowed on urgent transitions."
receiverMessage == "Clock guards are not allowed on broadcast receivers."
\* The channel a sync refers to, and whether a guard is a clock guard.
channelOf(sync) == annotate(sync).e.args[1].type
isClockGuard(guard) == ~empty(guard) /\ ~isInteger(annotate(guard).e)
once(c) == IF c THEN 1 ELSE 0

\* C2: for a transition with a non-empty sync, visitTransition emits the
\* urgent-transition error iff the channel is URGENT and the guard is a
\* clock guard, and the broadcast-receiver error iff the channel is
\* BROADCAST, the sync is a receive and the guard is a clock guard.
ClockGuardRejection ==
    (node.visit = "transition" /\ ~empty(node.sync))
    => /\ Count(emitted, urgentMessage)
            = once(hasPrefix(channelOf(node.sync), "URGENT")
                   /\ isClockGuard(node.guard))
       /\ Count(emitted, receiverMessage)
            = once(hasPrefix(channelOf(node.sync), "BROADCAST")
                   /\ node.sync.sync = "SYNC_QUE"
                   /\ isClockGuard(node.guard))
\* A send on a non-urgent broadcast channel under a clock guard was
\* visited and got neither error.
BroadcastSenderAccepted ==
    /\ node.visit = "transition"
    /\ node.sync = Sync(Ident("bc"), "SYNC_BANG")
    /\ node.guard = ClockLower
    /\ emitted = <<>>

\* A side-effect free argument that is not a left value is bound to a
\* non-constant reference parameter.
isValueForReference ==
    /\ hasOneBinding
    /\ hasPrefix(oneBinding.type, "REFERENCE")
    /\ ~hasPrefix(oneBinding.type, "CONSTANT")
    /\ isSideEffectFree(oneBinding.arg)
    /\ ~isLHSValue(annotate(oneBinding.arg).e)

accepts(type, e) ==
    \/ /\ hasPrefix(type, "REFERENCE")
       /\ hasPrefix(type, "CONSTANT")
       /\ ~dependsOn(e, persistentVariables)
    \/ hasPrefix(type, "REFERENCE") /\ isUniqueReference(e)
    \/ ~hasPrefix(type, "REFERENCE") /\ ~dependsOn(e, persistentVariables)
\* What visitInstance is to emit for a binding whose argument annotates
\* to a.
classified(binding, a) ==
    a.r.d \o
      (IF ~isSideEffectFree(a.e)
       THEN <<Err("Argument must be side effect free")>>
       ELSE IF accepts(binding.type, a.e)
       THEN checkParameterCompatible(instanceValuation(<<binding>>),
                                     binding.type, a.e).d
       ELSE <<Err("Incompatible argument")>>)

\* C4: visitInstance hands a side-effect free argument to
\* checkParameterCompatible iff the parameter is a constant reference and
\* the argument computable, or the parameter is a reference and the
\* argument a unique reference, or the parameter is a value and the
\* argument computable; otherwise the argument gets exactly one
\* "Incompatible argument" and no more; an argument with a side effect
\* gets only "Argument must be side effect free".
ArgumentClassification ==
    hasOneBinding
    => emitted = classified(oneBinding, annotate(oneBinding.arg))
\* a[i], a left value that is no unique reference, was bound to a
\* non-constant reference parameter and rejected.
SharedReferenceRejected ==
    /\ hasOneBinding
    /\ oneBinding.arg = Index(Ident("a"), Ident("i"))
    /\ oneBinding.type = withPrefix(IntRange(Const(0), Const(5)), Reference)
    /\ emitted = <<Err("Incompatible argument")>>

\* C7: an entry point returns true iff the sink holds no error-severity
\* diagnostic, whatever else it holds.
ReturnsNoErrors ==
    pc = "returned"
    => (result <=> \A n \in 1..Len(sink) : sink[n].sev # "error")
\* An entry point returned true on a run that produced a warning.
ReturnedWithWarning ==
    /\ pc = "returned"
    /\ result
    /\ Has(sink, "Expression does not have any effect")

\* An expression is a constraint iff it is empty or of one of these bases.
constraintBases == {"INT", "BOOL", "INVARIANT", "GUARD", "CONSTRAINT"}
isNoConstraint(e) == ~empty(e) /\ e.type.base \notin constraintBases
\* The annotated query of the property last visited.
query == annotate(node.expr).e

\* C9: visitProperty emits "Property must be a constraint" once if the
\* query is a leads-to with an operand that is no constraint, or no
\* leads-to and itself no constraint, and not at all otherwise.
PropertyConstraint ==
    node.visit = "property"
    => Count(emitted, "Property must be a constraint")
         = once(IF query.kind = "LEADSTO"
                THEN isNoConstraint(query.args[1])
                     \/ isNoConstraint(query.args[2])
                ELSE isNoConstraint(query))
\* A leads-to query got both the side-effect error and the constraint
\* error.
BothPropertyErrors ==
    /\ node.visit = "property"
    /\ node.expr.kind = "LEADSTO"
    /\ Has(emitted, "Property must be side effect free")
    /\ Has(emitted, "Property must be a constraint")

(* Properties of checkParameterCompatible *)

RECURSIVE depth(_)
\* The number of array levels of a type.
depth(type) == IF type.base = "ARRAY" THEN 1 + depth(getSub(type)) ELSE 0
channelCap(type) ==
    IF "URGENT" \in type.prefix THEN 0
    ELSE IF "BROADCAST" \in type.prefix THEN 1
    ELSE 2
\* Parameter and argument are channels under equally many array levels and
\* the left-value test of a non-constant reference passed.
reachesChannels ==
    /\ node.visit = "parameter"
    /\ pc = "done"
    /\ stripArray(node.type).base = "CHANNEL"
    /\ stripArray(node.arg.type).base = "CHANNEL"
    /\ depth(node.type) = depth(node.arg.type)
    /\ ~(hasPrefix(node.type, "REFERENCE") /\ ~hasPrefix(node.type, "CONSTANT")
         /\ ~isLHSValue(node.arg))

\* C5: when parameter and argument are channels,
\* checkParameterCompatible emits "Incompatible channel type" iff the
\* capability of the argument (0 urgent, 1 broadcast, 2 otherwise) is
\* below that of the parameter.
ChannelCapability ==
    reachesChannels
    => (Has(sink, "Incompatible channel type")
          <=> channelCap(stripArray(node.arg.type))
                < channelCap(stripArray(node.type)))
\* An urgent broadcast channel was refused for a broadcast parameter.
UrgentBroadcastRefused ==
    /\ reachesChannels
    /\ node.arg = annotate(Ident("ub")).e
    /\ node.type = withPrefix(Channel({"BROADCAST"}), Reference)
    /\ sink = <<Err("Incompatible channel type")>>

RECURSIVE unknownSize(_, _)
\* Some array level the loop of checkParameterCompatible compares has a
\* size that is not computable.
unknownSize(paramType, argType) ==
    /\ paramType.base = "ARRAY"
    /\ argType.base = "ARRAY"
    /\ \/ ~evaluate(ConstantValuation, getArraySize(paramType)).ok
       \/ ~evaluate(ConstantValuation, getArraySize(argType)).ok
       \/ unknownSize(getSub(paramType), getSub(argType))

\* C8: checkParameterCompatible does not abort when an array size it
\* compares is not computable.
UnknownSizeDegrades ==
    (node.visit = "parameter" /\ unknownSize(node.type, node.arg.type)
     /\ ~(hasPrefix(node.type, "REFERENCE") /\ ~hasPrefix(node.type, "CONSTANT")
          /\ ~isLHSValue(node.arg)))
    => pc # "aborted"

(* Properties of checkInitialiser *)

\* The declared type is an integer with a range and the initialiser is a
\* constant integer expression.
isRangedConstant ==
    /\ node.visit = "initialiser"
    /\ pc = "done"
    /\ node.type.base = "INT"
    /\ ~empty(getRangeFirst(node.type))
    /\ isInteger(annotate(node.expr).e)
    /\ ~dependsOn(node.expr, persistentVariables)
    /\ isSideEffectFree(node.expr)
lower == evaluate(ConstantValuation, getRangeFirst(node.type))
upper == evaluate(ConstantValuation, getRangeSecond(node.type))
initial == evaluate(ConstantValuation, node.expr)

\* C6: for an integer variable with range [lo, hi] and a constant integer
\* initialiser k, checkInitialiser(variable) emits nothing when
\* lo <= k <= hi, exactly "Initialiser is out of range" when k is outside,
\* and no range diagnostic when k, lo or hi is not computable.
InitialiserRange ==
    isRangedConstant
    => IF lower.ok /\ upper.ok /\ initial.ok
       THEN IF lower.v <= initial.v /\ initial.v <= upper.v
            THEN sink = <<>>
            ELSE sink = <<Err("Initialiser is out of range")>>
       ELSE ~Has(sink, "Initialiser is out of range")
\* int[0,5] v = -1 was refused.
BelowRangeRefused ==
    /\ isRangedConstant
    /\ node.type = IntRange(Const(0), Const(5))
    /\ node.expr = MinusOne
    /\ sink = <<Err("Initialiser is out of range")>>

(* Properties of annotate *)

assignedKinds ==
    {"EQ", "NEQ", "NOT", "UNARY_MINUS", "INLINEIF", "COMMA"}
    \cup BinaryKinds \cup AssignKinds \cup IncDecKinds
RECURSIVE isTotal(_)
\* No subexpression of a kind annotate() types has base VOID.
isTotal(e) ==
    /\ e.kind \in assignedKinds => e.type.base # "VOID"
    /\ \A n \in 1..Len(e.args) : isTotal(e.args[n])

\* C10: after annotate(e), every subexpression of a kind the annotator
\* types has a base other than VOID.
TotalAnnotation ==
    (node.visit = "annotate" /\ pc = "done") => isTotal(node.out)

\* The rank of a base in the order INT/BOOL < INVARIANT < GUARD < CONSTRAINT.
rank(type) ==
    CASE type.base \in {"INT", "BOOL"} -> 0
      [] type.base = "INVARIANT" -> 1
      [] type.base = "GUARD" -> 2
      [] type.base = "CONSTRAINT" -> 3
      [] OTHER -> 4
\* annotate typed a conjunction whose operands are constraints of some
\* rank and not both integers.
isRankedAnd ==
    /\ node.visit = "annotate"
    /\ pc = "done"
    /\ node.out.kind = "AND"
    /\ node.out.args[1].type.base \in constraintBases
    /\ node.out.args[2].type.base \in constraintBases
    /\ ~(isInteger(node.out.args[1]) /\ isInteger(node.out.args[2]))

\* C11: the type annotate gives a conjunction whose operands are not both
\* integers has the greater of the ranks of its operands, in the order
\* INT/BOOL < INVARIANT < GUARD < CONSTRAINT.
AndRank ==
    isRankedAnd
    => rank(node.out.type)
         = IF rank(node.out.args[1].type) >= rank(node.out.args[2].type)
           THEN rank(node.out.args[1].type)
           ELSE rank(node.out.args[2].type)
\* An integer and an invariant were joined to an invariant.
IntegerAndInvariant ==
    /\ isRankedAnd
    /\ node.out.args[1].type.base = "INT"
    /\ node.out.args[2].type.base = "INVARIANT"
    /\ node.out.type.base = "INVARIANT"
    /\ sink = <<>>

----------------------------------------------------------------------------
(* isLHSValue(expr) and isUniqueReference(expr) *)

Designators ==
    {Ident(n) : n \in {"i", "j", "k", "t", "b", "x", "N", "r", "a", "c"}}
    \cup {Index(Ident("a"), e) : e \in {Ident("i"), Ident("N"), Const(1)}}
Conditionals ==
    {InlineIf(Ident("b"), l, r) : l \in Designators, r \in Designators}
References ==
    Designators \cup Conditionals
    \cup {Unary(k, e) : k \in {"NOT", "PREINCREMENT", "POSTINCREMENT"},
                        e \in Designators}
    \cup {Unary("NOT", SameRangeIf),
          Index(InlineIf(Ident("b"), Ident("a"), Ident("a")), Const(1)),
          Call("f", IntType), Const(1), Sum}
    \cup {Binary(k, e, Const(1)) : k \in {"ASSIGN", "ASSPLUS"},
                                   e \in Designators}
    \cup {Binary("COMMA", l, r) :
            l \in {Ident("i"), Ident("N")},
            r \in Designators \cup {SameRangeIf}}
ReferenceInputs ==
    {[visit |-> "reference", expr |-> e, out |-> Empty,
      lhs |-> FALSE, unique |-> FALSE] : e \in References}

InitReference == InitInput(ReferenceInputs)
\* annotate(expr), then both predicates on the annotated expression.
Classify ==
    /\ pc = "input"
    /\ node.visit = "reference"
    /\ sink' = annotate(node.expr).r.d
    /\ node' = [node EXCEPT !.out = annotate(node.expr).e,
                            !.lhs = isLHSValue(annotate(node.expr).e),
                            !.unique = isUniqueReference(annotate(node.expr).e)]
    /\ pc' = "done"
    /\ UNCHANGED <<mark, visits, ndebug, result>>
SpecReference == InitReference /\ [][Classify]_vars

\* The branches of the conditional last classified, and whether the
\* declared ranges of two stripped types are written alike.
thenBranch == node.out.args[2]
elseBranch == node.out.args[3]
alike(t, f) ==
    /\ equal(getRangeFirst(t), getRangeFirst(f))
    /\ equal(getRangeSecond(t), getRangeSecond(f))

RECURSIVE isIndirect(_)
\* On the way to the location an expression designates there is an index
\* that depends on a persistent variable, or a conditional.
isIndirect(e) ==
    CASE e.kind = "ARRAY" ->
            dependsOn(e.args[2], persistentVariables) \/ isIndirect(e.args[1])
      [] e.kind = "INLINEIF" -> TRUE
      [] e.kind = "COMMA" -> isIndirect(e.args[2])
      [] e.kind \in {"DOT", "PREINCREMENT", "PREDECREMENT"} \cup AssignKinds ->
            isIndirect(e.args[1])
      [] OTHER -> FALSE

\* C20: a unique reference is a left value; a left value is no unique
\* reference only if it designates its location through an index that
\* depends on a persistent variable or through a conditional; on an
\* identifier both predicates say that the symbol is not constant.
UniqueReferenceStricter ==
    (node.visit = "reference" /\ pc = "done")
    => /\ node.unique => node.lhs
       /\ (node.lhs /\ ~node.unique) => isIndirect(node.out)
       /\ node.out.kind = "IDENTIFIER"
          => /\ node.lhs = node.unique
             /\ node.lhs = ("CONSTANT" \notin SymbolType(node.out.sym).prefix)
\* a[i] with a variable i was found a left value and no unique reference.
VariableIndexNotUnique ==
    /\ node.visit = "reference"
    /\ pc = "done"
    /\ node.expr = Index(Ident("a"), Ident("i"))
    /\ node.lhs
    /\ ~node.unique

\* C13: for an assignment between two records annotate emits
\* "Incompatible types" iff the frames of the two records differ.
RecordAssignment ==
    (/\ node.visit = "annotate"
     /\ pc = "done"
     /\ node.out.kind = "ASSIGN"
     /\ node.out.args[1].type.base = "RECORD"
     /\ node.out.args[2].type.base = "RECORD")
    => (Has(sink, "Incompatible types")
          <=> getRecordFields(node.out.args[1].type).id
                # getRecordFields(node.out.args[2].type).id)

\* The class of an operand of clock arithmetic: integer, clock or
\* difference.
class(e) ==
    CASE e.type.base \in {"INT", "BOOL"} -> "I"
      [] e.type.base = "CLOCK" -> "C"
      [] e.type.base = "DIFF" -> "D"
      [] OTHER -> ""
\* The base that clock arithmetic gives operator k on classes l and r
\* ("" for none), integers on both sides aside.
clockBase(k, l, r) ==
    CASE k = "PLUS" ->
            IF <<l, r>> \in {<<"I", "C">>, <<"C", "I">>} THEN "CLOCK"
            ELSE IF <<l, r>> \in {<<"I", "D">>, <<"D", "I">>} THEN "DIFF"
            ELSE ""
      [] k = "MINUS" ->
            IF <<l, r>> = <<"C", "I">> THEN "CLOCK"
            ELSE IF <<l, r>> \in {<<"D", "I">>, <<"I", "D">>, <<"C", "C">>}
            THEN "DIFF"
            ELSE ""
      [] k \in {"LT", "LE"} ->
            IF <<l, r>> \in {<<"C", "C">>, <<"C", "I">>, <<"D", "I">>,
                             <<"I", "D">>}
            THEN "INVARIANT"
            ELSE IF <<l, r>> = <<"I", "C">> THEN "GUARD"
            ELSE ""
      [] k \in {"GE", "GT"} ->
            IF <<l, r>> \in {<<"C", "C">>, <<"I", "C">>, <<"D", "I">>,
                             <<"I", "D">>}
            THEN "INVARIANT"
            ELSE IF <<l, r>> = <<"C", "I">> THEN "GUARD"
            ELSE ""
\* annotate typed a sum, difference or comparison of integers, clocks and
\* differences.
isClockArithmetic ==
    /\ node.visit = "annotate"
    /\ pc = "done"
    /\ node.out.kind \in {"PLUS", "MINUS", "LT", "LE", "GE", "GT"}
    /\ class(node.out.args[1]) # ""
    /\ class(node.out.args[2]) # ""
\* The node got base b without a diagnostic, or, for b = "", base
\* CONSTRAINT and exactly one "Invalid operands to binary operator".
isTypedAs(b) ==
    IF b = ""
    THEN /\ node.out.type.base = "CONSTRAINT"
         /\ sink = <<Err("Invalid operands to binary operator")>>
    ELSE /\ node.out.type.base = b
         /\ sink = <<>>

\* C14 as stated: sums and differences of two integers are INT, and every
\* other combination, comparisons of two integers included, is typed by
\* the table of clock arithmetic.
ClockArithmeticOnly ==
    isClockArithmetic
    => isTypedAs(IF node.out.kind \in {"PLUS", "MINUS"}
                    /\ class(node.out.args[1]) = "I"
                    /\ class(node.out.args[2]) = "I"
                 THEN "INT"
                 ELSE clockBase(node.out.kind, class(node.out.args[1]),
                                class(node.out.args[2])))
\* C14: sums, differences and comparisons of two integers are INT; every
\* other combination of integers, clocks and differences is typed by the
\* table of clock arithmetic, and one outside the table gets CONSTRAINT
\* and exactly one "Invalid operands to binary operator".
ClockArithmetic ==
    isClockArithmetic
    => isTypedAs(IF class(node.out.args[1]) = "I"
                    /\ class(node.out.args[2]) = "I"
                 THEN "INT"
                 ELSE clockBase(node.out.kind, class(node.out.args[1]),
                                class(node.out.args[2])))
\* i - x, an integer minus a clock, was refused.
IntegerMinusClockRefused ==
    /\ isClockArithmetic
    /\ node.expr = Binary("MINUS", Ident("i"), Ident("x"))
    /\ node.out.type.base = "CONSTRAINT"
    /\ Len(sink) = 1

(* Properties of the INT rule of checkParameterCompatible *)

\* An integer parameter with a declared range met an integer left value
\* with a declared range.
isRangedLeftValue ==
    /\ node.visit = "parameter"
    /\ pc = "done"
    /\ node.type.base = "INT"
    /\ ~empty(getRangeFirst(node.type))
    /\ node.arg.type.base = "INT"
    /\ ~empty(getRangeFirst(node.arg.type))
    /\ isLHSValue(node.arg)
\* The bounds of the two declared ranges, as far as they evaluate.
paramLower == evaluate(ConstantValuation, getRangeFirst(node.type))
paramUpper == evaluate(ConstantValuation, getRangeSecond(node.type))
argLower == evaluate(ConstantValuation, getRangeFirst(node.arg.type))
argUpper == evaluate(ConstantValuation, getRangeSecond(node.arg.type))
bothEvaluate == paramLower.ok /\ paramUpper.ok /\ argLower.ok /\ argUpper.ok
isReference == "REFERENCE" \in node.type.prefix
isConstant == "CONSTANT" \in node.type.prefix
sameRanges == paramLower.v = argLower.v /\ paramUpper.v = argUpper.v
isContained == paramLower.v <= argLower.v /\ argUpper.v <= paramUpper.v
isDisjoint == argUpper.v < paramLower.v \/ paramUpper.v < argLower.v
someEmpty == paramLower.v > paramUpper.v \/ argLower.v > argUpper.v
sameBounds ==
    /\ equal(getRangeFirst(node.type), getRangeFirst(node.arg.type))
    /\ equal(getRangeSecond(node.type), getRangeSecond(node.arg.type))
\* What the claim lets the rule reject.
isRejected ==
    IF bothEvaluate
    THEN IF isReference /\ ~isConstant THEN ~sameRanges
         ELSE IF isReference THEN ~isContained
         ELSE isDisjoint
    ELSE isReference /\ ~sameBounds

\* C15 as stated: the rule emits one diagnostic if the ranges are unequal
\* (non-constant reference), not contained (constant reference) or
\* disjoint (value), or, when they do not evaluate, if the parameter is a
\* reference and the bounds are written differently; none otherwise.
RangeRule ==
    isRangedLeftValue => Len(sink) = (IF isRejected THEN 1 ELSE 0)
\* C15: as above for ranges none of which is empty; when both ranges
\* evaluate and one is empty, the rule emits one diagnostic in every
\* passing mode.
RangeRuleNonEmpty ==
    isRangedLeftValue
    => Len(sink) = (IF isRejected \/ (bothEvaluate /\ someEmpty) THEN 1 ELSE 0)
\* A variable of range [0,10] was accepted for a value parameter of range
\* [0,5], which it overlaps without being contained in it.
OverlapAccepted ==
    /\ isRangedLeftValue
    /\ node.type = IntRange(Const(0), Const(5))
    /\ node.arg = annotate(Ident("i")).e
    /\ sink = <<>>

(* Properties of initialisers *)

\* checkInitialiser(variable) ran on an initialiser that annotate takes
\* without a diagnostic.
isInitialised ==
    /\ node.visit = "initialiser"
    /\ pc = "done"
    /\ annotate(node.expr).r.d = <<>>

\* C16: checkInitialiser(variable) appends at most one diagnostic.
InitialiserFaultOnce ==
    isInitialised => Len(sink) <= 1

\* checkInitialiser(variable) ran on a list initialiser of a RECORD variable
\* whose frame is not the list's own.
isRecordList ==
    /\ isInitialised
    /\ node.type.base = "RECORD"
    /\ node.expr.kind = "LIST"
    /\ ~sameFrame(getRecordFields(node.type), getRecordFields(node.expr.type))

\* The declared fields and the designators of the list.
declared == getRecordFields(node.type).fields
designators == getRecordFields(node.expr.type).fields
elements == 1..Len(node.expr.args)

\* The cursor at element k: field 0 at the first element, the named field's
\* index at a designator, one past the previous element otherwise.
RECURSIVE cursor(_)
cursor(k) ==
    IF designators[k].name # "" THEN getIndexOf(declared, designators[k].name)
    ELSE IF k = 1 THEN 0
    ELSE cursor(k - 1) + 1

isHit(k) == cursor(k) \in 0..(Len(declared) - 1)
isSecond(k) == \E j \in 1..(k - 1) : cursor(j) = cursor(k)
isValid(k) ==
    /\ isHit(k)
    /\ checkInitialiserType(declared[cursor(k) + 1].type,
                            node.expr.args[k]).d = <<>>
\* Element k is checked against its field and fails.
isFailed(k) == isHit(k) /\ ~isSecond(k) /\ ~isValid(k)
\* The walk gets to element k: no element before it is off the fields or
\* failed.
isWalked(k) == \A j \in 1..(k - 1) : isHit(j) /\ ~isFailed(j)
\* No walked element hits field f (0-based).
isNeverHit(f) == \A k \in elements : isWalked(k) => cursor(k) # f
isSomeNeverHit == \E f \in 0..(Len(declared) - 1) : isNeverHit(f)
isSomeFailed == \E k \in elements : isWalked(k) /\ isFailed(k)

\* No diagnostic iff no designator is unknown, the cursor never reaches n,
\* every field is hit exactly once and every element is valid for its field.
CleanWalk ==
    isRecordList
    => (sink = <<>>
        <=> /\ \A k \in elements :
                 designators[k].name # ""
                 => getIndexOf(declared, designators[k].name) # -1
            /\ \A k \in elements : cursor(k) < Len(declared)
            /\ \A f \in 0..(Len(declared) - 1) :
                 Cardinality({k \in elements : cursor(k) = f}) = 1
            /\ \A k \in elements : isValid(k))

\* A second hit gives "Multiple initialisers for field", and only an
\* element that is the first to hit its field is checked against it.
SecondHit ==
    isRecordList
    => /\ \A k \in elements :
            isWalked(k) /\ isHit(k) /\ isSecond(k)
            => Has(sink, "Multiple initialisers for field")
       /\ Has(sink, "Initialiser is out of range") <=> isSomeFailed

\* C17 as stated: the cursor walk of a RECORD initialiser; any field never
\* hit gives "Incomplete initialiser".
RecordCursor ==
    /\ CleanWalk
    /\ SecondHit
    /\ isRecordList /\ isSomeNeverHit => Has(sink, "Incomplete initialiser")

\* C17: the cursor walk of a RECORD initialiser; "Incomplete initialiser"
\* is given iff some field is never hit and no checked element failed.
RecordCursorUnwinding ==
    /\ CleanWalk
    /\ SecondHit
    /\ isRecordList
       => (Has(sink, "Incomplete initialiser")
           <=> isSomeNeverHit /\ ~isSomeFailed)

\* { 1, .m = 42, 1 }: the second element hits m again and is not checked.
SecondHitUnchecked ==
    /\ isRecordList
    /\ \E k \in elements : isWalked(k) /\ isSecond(k) /\ ~isValid(k)
    /\ sink = <<Err("Multiple initialisers for field")>>

\* checkInitialiser(variable) ran on an ARRAY variable and got to
\* checkInitialiser(type, init).
isArrayInitialised ==
    /\ isInitialised
    /\ node.type.base = "ARRAY"
    /\ ~dependsOn(node.expr, persistentVariables)
    /\ isSideEffectFree(node.expr)

\* What evaluating the declared size gives.
dimension == evaluate(ConstantValuation, getArraySize(node.type))
\* The diagnostics of element i alone: a designator, or the element
\* against the sub-type.
fault(i) ==
    IF designators[i].name # ""
    THEN <<Err("Unknown field specified in initialiser")>>
    ELSE checkInitialiserType(getSub(node.type), node.expr.args[i]).d
isFaulty(i) == fault(i) # <<>>
firstFaulty == CHOOSE i \in elements :
                   isFaulty(i) /\ \A j \in 1..(i - 1) : ~isFaulty(j)

\* C18: an ARRAY initialiser that is not a list gives "Invalid array
\* initialiser" and one for a size that cannot be computed the
\* parameterized-size error; a list of n elements for size d gives exactly
\* "Excess elements in array initialiser" when n > d, otherwise the
\* diagnostic of the first faulty element, otherwise "Missing fields in
\* initialiser" when n < d, otherwise nothing.
ArrayInitialiser ==
    isArrayInitialised
    => sink =
         IF node.expr.kind # "LIST" THEN <<Err("Invalid array initialiser")>>
         ELSE IF ~dimension.ok
         THEN <<Err("Arrays with parameterized size cannot have an initialiser")>>
         ELSE IF Len(node.expr.args) > dimension.v
         THEN <<Err("Excess elements in array initialiser")>>
         ELSE IF \E i \in elements : isFaulty(i) THEN fault(firstFaulty)
         ELSE IF Len(node.expr.args) < dimension.v
         THEN <<Err("Missing fields in initialiser")>>
         ELSE <<>>

(* Properties of declarations *)

\* C19: visiting a variable or constant declaration never aborts the
\* checker, whatever its type.
DeclarationCompletes ==
    node.visit = "variable" => pc # "aborted"

====
